---- MODULE Spec2Model ----
(***************************************************************************)
(* Take Your Time (TYT): the webview panel registry (TYTWebviewManager),   *)
(* its per-panel message handler, the command handler that opens a panel,  *)
(* and the content renderer (WebviewContentGenerator.generate).            *)
(*                                                                         *)
(* Strings that the code inspects character by character (URLs, preset     *)
(* names, HTML entities) are sequences of one-character strings.  A        *)
(* generated document is the sequence of the template literal's pieces:    *)
(* each piece is the literal text up to an interpolation, followed by the  *)
(* interpolated value and the name of the expression it came from.         *)
(***************************************************************************)
EXTENDS Integers, Sequences, FiniteSets, TLC

----------------------------------------------------------------------------
(* Character data *)


\* the letters String.prototype.toLowerCase maps, and their images
UpperCase ==
  <<"A","B","C","D","E","F","G","H","I","J","K","L","M","N","O","P","Q","R",
    "S","T","U","V","W","X","Y","Z">>

\* images of UpperCase under toLowerCase, position by position
LowerCase ==
  <<"a","b","c","d","e","f","g","h","i","j","k","l","m","n","o","p","q","r",
    "s","t","u","v","w","x","y","z">>

\* replacement text of escapeHtml for &
EntAmp ==
  <<"&","a","m","p",";">>

\* replacement text of escapeHtml for <
EntLt ==
  <<"&","l","t",";">>

\* replacement text of escapeHtml for >
EntGt ==
  <<"&","g","t",";">>

\* replacement text of escapeHtml for the double quote
EntQuot ==
  <<"&","q","u","o","t",";">>

\* replacement text of escapeHtml for the single quote
EntApos ==
  <<"&","#","0","3","9",";">>

\* denylist fragment (isSmbGame)
FragSmbGames ==
  <<"s","m","b","g","a","m","e","s",".","b","e">>

\* denylist fragment (isSmbGame)
FragMario ==
  <<"m","a","r","i","o">>

\* denylist fragment (isCrazyGame)
FragCrazyGames ==
  <<"c","r","a","z","y","g","a","m","e","s",".","c","o","m">>

\* default gameUrl and first built-in preset
UrlOnlineGames ==
  <<"h","t","t","p","s",":","/","/","o","n","l","i","n","e","g","a","m","e",
    "s",".","i","o","/">>

\* built-in preset
UrlPlaypager ==
  <<"h","t","t","p","s",":","/","/","p","l","a","y","p","a","g","e","r",".",
    "c","o","m","/">>

\* built-in preset
UrlCrazyGames ==
  <<"h","t","t","p","s",":","/","/","w","w","w",".","c","r","a","z","y","g",
    "a","m","e","s",".","c","o","m","/">>

\* built-in preset; the game URL of the generator's test
UrlSmbGames ==
  <<"h","t","t","p","s",":","/","/","w","w","w",".","s","m","b","g","a","m",
    "e","s",".","b","e","/">>

\* built-in preset name
NameOnlineGames ==
  <<"O","n","l","i","n","e","G","a","m","e","s",".","i","o">>

\* built-in preset name
NamePlaypager ==
  <<"P","l","a","y","p","a","g","e","r">>

\* built-in preset name
NameCrazyGames ==
  <<"C","r","a","z","y","G","a","m","e","s">>

\* built-in preset name
NameSmbGames ==
  <<"S","M","B"," ","G","a","m","e","s">>

\* preset name used by the generator's tests
NameTest ==
  <<"T","e","s","t">>

\* maliciousUrl of the test 'Escapes HTML in Game URL'
UrlMalicious ==
  <<"h","t","t","p","s",":","/","/","e","x","a","m","p","l","e",".","c","o",
    "m","\"",">","<","s","c","r","i","p","t",">","a","l","e","r","t","(","1",
    ")","<","/","s","c","r","i","p","t",">">>

\* the raw text the test asserts to be absent
RawScriptTag ==
  <<"<","s","c","r","i","p","t",">","a","l","e","r","t","(","1",")","<","/",
    "s","c","r","i","p","t",">">>

\* the escaped text the test asserts to be present
EscapedMaliciousTail ==
  <<"&","q","u","o","t",";","&","g","t",";","&","l","t",";","s","c","r","i",
    "p","t","&","g","t",";","a","l","e","r","t","(","1",")","&","l","t",";",
    "/","s","c","r","i","p","t","&","g","t",";">>

\* a denylisted URL in upper case
UrlCrazyUpper ==
  <<"H","T","T","P","S",":","/","/","W","W","W",".","C","R","A","Z","Y","G",
    "A","M","E","S",".","C","O","M","/">>

\* a URL whose host is not denylisted but whose path holds a fragment
UrlMarioPath ==
  <<"h","t","t","p","s",":","/","/","x",".","i","o","/","m","a","r","i","o">>

\* a URL whose path holds a fragment and whose query holds &
UrlMarioAmp ==
  <<"h","t","t","p","s",":","/","/","x",".","i","o","/","m","a","r","i","o",
    "?","a","=","1","&","b","=","2">>

\* an http URL holding & and '
UrlAmpQuote ==
  <<"h","t","t","p",":","/","/","a",".","i","o","/","?","a","=","1","&","b",
    "=","'","2","'">>

\* a URL with a scheme other than http/https
UrlJavascript ==
  <<"j","a","v","a","s","c","r","i","p","t",":","a","l","e","r","t","(","1",
    ")">>

\* a string without a scheme: Uri.parse(value, true) throws
UrlNoScheme ==
  <<"n","o","t"," ","a"," ","u","r","l">>

\* a preset name holding reserved characters
NameMarkup ==
  <<"<","b",">","T","&","J","'","s","<","/","b",">">>
----------------------------------------------------------------------------
(* String helpers of the JavaScript runtime, as the code uses them *)

\* String.prototype.toLowerCase on the letters A-Z (other characters are kept)
toLowerCase(s) ==
  [i \in 1..Len(s) |->
     IF \E k \in 1..Len(UpperCase) : UpperCase[k] = s[i]
     THEN LowerCase[CHOOSE k \in 1..Len(UpperCase) : UpperCase[k] = s[i]]
     ELSE s[i]]

\* String.prototype.includes: frag occurs in s as a contiguous substring
includes(s, frag) ==
  \E i \in 0..(Len(s) - Len(frag)) : SubSeq(s, i + 1, i + Len(frag)) = frag

\* String.prototype.replace(/c/g, r): every occurrence of character c becomes r
RECURSIVE replaceAll(_, _, _)
replaceAll(s, c, r) ==
  IF s = <<>> THEN <<>>
  ELSE (IF Head(s) = c THEN r ELSE <<Head(s)>>) \o replaceAll(Tail(s), c, r)

\* the strings the model passes to escapeHtml and to the denylist test
KnownStrings ==
  {UrlOnlineGames, UrlPlaypager, UrlCrazyGames, UrlSmbGames, UrlCrazyUpper,
   UrlMarioPath, UrlMarioAmp, UrlMalicious, UrlAmpQuote, UrlJavascript,
   UrlNoScheme,
   NameOnlineGames, NamePlaypager, NameCrazyGames, NameSmbGames, NameTest,
   NameMarkup}

\* an escapeHtml that replaces & last
escapeHtmlAmpLast(unsafe) ==
  replaceAll(replaceAll(replaceAll(replaceAll(replaceAll(unsafe,
    "<", EntLt), ">", EntGt), "\"", EntQuot), "'", EntApos), "&", EntAmp)

\* the body of escapeHtml: five global replacements, & first
escapeHtmlSteps(unsafe) ==
  replaceAll(replaceAll(replaceAll(replaceAll(replaceAll(unsafe,
    "&", EntAmp), "<", EntLt), ">", EntGt), "\"", EntQuot), "'", EntApos)

\* escapeHtmlSteps on the known strings, computed once
EscapeMemo == [s \in KnownStrings |-> escapeHtmlSteps(s)]

\* a faulty escapeHtml that leaves the double quote alone
escapeHtmlNoQuote(unsafe) ==
  replaceAll(replaceAll(replaceAll(replaceAll(unsafe,
    "&", EntAmp), "<", EntLt), ">", EntGt), "'", EntApos)

\* escapeHtml(unsafe)
escapeHtml(unsafe) ==
  IF unsafe \in KnownStrings THEN EscapeMemo[unsafe] ELSE escapeHtmlSteps(unsafe)

----------------------------------------------------------------------------
(* WebviewContentGenerator *)

\* one piece of a template literal: literal text, then an interpolated value
Piece(lit, src, val) == [lit |-> lit, src |-> src, val |-> val]

\* the opening of the embedding frame, up to the value of its src attribute
IframeOpenLit == "<iframe id=\"game-frame\" src=\""

\* the opening of the placeholder view, up to the value of its style attribute
BlockedOpenLit == "<div class=\"blocked-container\" style=\""

\* the call-to-action of the placeholder view, up to its argument
BlockedButtonLit ==
  "</h2><p>This game website cannot be played directly inside VS Code.</p>"
  \o "<button class=\"btn-primary\" onclick=\"openExternal('"

\* the toolbar's open-in-browser button, up to its argument
ToolbarButtonLit ==
  "</select></div><div class=\"actions\">"
  \o "<button class=\"btn\" onclick=\"reloadGame()\">Reload</button>"
  \o "<button class=\"btn\" onclick=\"openExternal('"

\* the head of the document, up to the value of the CSP meta tag
CspMetaLit ==
  "<!DOCTYPE html><html lang=\"en\"><head><meta charset=\"UTF-8\">"
  \o "<meta http-equiv=\"Content-Security-Policy\" content=\""

\* the control script, up to the url reloadGame posts in the blocked view
ScriptReloadLit ==
  "const vscode = acquireVsCodeApi(); ... function reloadGame() { if (gameFrame)"
  \o " {...} else { vscode.postMessage({command: 'switchGame', url: '"

\* a policy that allows everything by default and names no frame source
generateCSPAllowAll(webview) ==
  << "default-src *",
     "script-src 'unsafe-inline' 'unsafe-eval'",
     "style-src 'unsafe-inline'",
     "img-src " \o webview.cspSource \o " https: data:",
     "font-src https: data:" >>

\* generateCSP: the directives that join('; ') puts into one string
generateCSP(webview) ==
  << "default-src 'none'",
     "script-src 'unsafe-inline' 'unsafe-eval'",
     "style-src 'unsafe-inline'",
     "img-src " \o webview.cspSource \o " https: data:",
     "frame-src * https: http:",
     "font-src https: data:" >>

\* webview.asWebviewUri(uri).toString()
asWebviewUri(webview, uri) == << "https://file+.vscode-resource.vscode-cdn.net/" \o uri >>

\* getScript(gameUrl): the script text with its one interpolation
getScript(gameUrl) ==
  << Piece(ScriptReloadLit, "gameUrl", escapeHtml(gameUrl)),
     Piece("' }); } } function switchGame(url) {...} function openExternal(url) {...}",
           "", <<>>) >>

\* the <option> elements: one per preset, joined
RECURSIVE optionsOf(_, _)
optionsOf(gamePresets, gameUrl) ==
  IF gamePresets = <<>> THEN <<>>
  ELSE LET preset == Head(gamePresets) IN
       << Piece("<option value=\"", "preset.url", escapeHtml(preset.url)),
          Piece("\" " \o (IF preset.url = gameUrl THEN "selected" ELSE "") \o ">",
                "preset.name", escapeHtml(preset.name)),
          Piece("</option>", "", <<>>) >>
       \o optionsOf(Tail(gamePresets), gameUrl)

\* gameUrl.toLowerCase() on the known strings, computed once
LowerMemo == [s \in KnownStrings |-> toLowerCase(s)]

\* a normalizedUrl that keeps the case of the letters
normalizedUrlKeepsCase(gameUrl) == gameUrl

\* normalizedUrl = gameUrl.toLowerCase()
normalizedUrl(gameUrl) ==
  IF gameUrl \in KnownStrings THEN LowerMemo[gameUrl] ELSE toLowerCase(gameUrl)

\* the denylist test of generate
isSmbGame(gameUrl) ==
  \/ includes(normalizedUrl(gameUrl), FragSmbGames)
  \/ includes(normalizedUrl(gameUrl), FragMario)

\* a denylist test on the url as written
isCrazyGameAsWritten(gameUrl) == includes(gameUrl, FragCrazyGames)

isCrazyGame(gameUrl) == includes(normalizedUrl(gameUrl), FragCrazyGames)

isBlocked(gameUrl) == isSmbGame(gameUrl) \/ isCrazyGame(gameUrl)

\* a main content that takes the images for granted
mainContentUnguarded(webview, gameUrl, resources) ==
  IF isBlocked(gameUrl)
  THEN LET useSmb   == isSmbGame(gameUrl)
           useCrazy == ~useSmb /\ isCrazyGame(gameUrl)
           bgUri == IF useSmb THEN asWebviewUri(webview, resources.smbBg)
                    ELSE IF useCrazy THEN asWebviewUri(webview, resources.crazyGamesBg)
                    ELSE <<>>
           titleText == IF useSmb THEN "Mario Games Preview"
                        ELSE IF useCrazy THEN "CrazyGames Preview"
                        ELSE "External Browser Required"
           bgStyle == IF bgUri # <<>>
                      THEN <<"background-image: url('">> \o bgUri
                           \o <<"'); background-size: cover; background-position: center; background-repeat: no-repeat; background-color: #1e1e1e;">>
                      ELSE <<"background-color: #1e1e1e;">>
       IN << Piece(BlockedOpenLit, "bgStyle", bgStyle),
             Piece("\"><div class=\"blocked-overlay\"><div class=\"blocked-content\"><div class=\"blocked-icon\"></div><h2>",
                   "titleText", <<titleText>>),
             Piece(BlockedButtonLit, "gameUrl", escapeHtml(gameUrl)),
             Piece("')\">Open in Browser</button><div style=\"margin-top: 10px; font-size: 0.8em; opacity: 0.7\">",
                   "gameUrl", escapeHtml(gameUrl)),
             Piece("</div></div></div></div>", "", <<>>) >>
  ELSE << Piece(IframeOpenLit, "gameUrl", escapeHtml(gameUrl)),
          Piece("\" frameborder=\"0\" allowfullscreen sandbox=\"allow-scripts allow-same-origin allow-forms allow-popups\"></iframe><div id=\"loading-overlay\"><div class=\"loader\"></div><div>Loading Game Arcade...</div></div>",
                "", <<>>) >>

\* the main content: the placeholder view or the embedding frame
mainContent(webview, gameUrl, resources) ==
  IF isBlocked(gameUrl)
  THEN LET useSmb   == isSmbGame(gameUrl) /\ resources.defined
           useCrazy == ~useSmb /\ isCrazyGame(gameUrl) /\ resources.defined
           bgUri == IF useSmb THEN asWebviewUri(webview, resources.smbBg)
                    ELSE IF useCrazy THEN asWebviewUri(webview, resources.crazyGamesBg)
                    ELSE <<>>
           titleText == IF useSmb THEN "Mario Games Preview"
                        ELSE IF useCrazy THEN "CrazyGames Preview"
                        ELSE "External Browser Required"
           bgStyle == IF bgUri # <<>>
                      THEN <<"background-image: url('">> \o bgUri
                           \o <<"'); background-size: cover; background-position: center; background-repeat: no-repeat; background-color: #1e1e1e;">>
                      ELSE <<"background-color: #1e1e1e;">>
       IN << Piece(BlockedOpenLit, "bgStyle", bgStyle),
             Piece("\"><div class=\"blocked-overlay\"><div class=\"blocked-content\"><div class=\"blocked-icon\"></div><h2>",
                   "titleText", <<titleText>>),
             Piece(BlockedButtonLit, "gameUrl", escapeHtml(gameUrl)),
             Piece("')\">Open in Browser</button><div style=\"margin-top: 10px; font-size: 0.8em; opacity: 0.7\">",
                   "gameUrl", escapeHtml(gameUrl)),
             Piece("</div></div></div></div>", "", <<>>) >>
  ELSE << Piece(IframeOpenLit, "gameUrl", escapeHtml(gameUrl)),
          Piece("\" frameborder=\"0\" allowfullscreen sandbox=\"allow-scripts allow-same-origin allow-forms allow-popups\"></iframe><div id=\"loading-overlay\"><div class=\"loader\"></div><div>Loading Game Arcade...</div></div>",
                "", <<>>) >>

\* a generate that also writes the token into the policy
generateNonceInPolicy(webview, gameUrl, gamePresets, resources, nonce) ==
  << Piece(CspMetaLit, "csp",
           Append(generateCSP(webview), "script-src 'nonce-" \o nonce \o "'")),
     Piece("\"><title>Take Your Time</title><style>...</style></head><body><div class=\"toolbar\"><div class=\"title\"><select id=\"game-selector\" onchange=\"switchGame(this.value)\">",
           "", <<>>) >>
  \o optionsOf(gamePresets, gameUrl)
  \o << Piece(ToolbarButtonLit, "gameUrl", escapeHtml(gameUrl)),
        Piece("')\">Open in Browser</button></div></div><div class=\"game-container\">",
              "", <<>>) >>
  \o mainContent(webview, gameUrl, resources)
  \o << Piece("</div><script nonce=\"", "nonce", <<nonce>>),
        Piece("\">", "", <<>>) >>
  \o getScript(gameUrl)
  \o << Piece("</script></body></html>", "", <<>>) >>

\* generate(webview, gameUrl, gamePresets, resources), with the value getNonce returned
generate(webview, gameUrl, gamePresets, resources, nonce) ==
  << Piece(CspMetaLit, "csp", generateCSP(webview)),
     Piece("\"><title>Take Your Time</title><style>...</style></head><body><div class=\"toolbar\"><div class=\"title\"><select id=\"game-selector\" onchange=\"switchGame(this.value)\">",
           "", <<>>) >>
  \o optionsOf(gamePresets, gameUrl)
  \o << Piece(ToolbarButtonLit, "gameUrl", escapeHtml(gameUrl)),
        Piece("')\">Open in Browser</button></div></div><div class=\"game-container\">",
              "", <<>>) >>
  \o mainContent(webview, gameUrl, resources)
  \o << Piece("</div><script nonce=\"", "nonce", <<nonce>>),
        Piece("\">", "", <<>>) >>
  \o getScript(gameUrl)
  \o << Piece("</script></body></html>", "", <<>>) >>

----------------------------------------------------------------------------
(* The document's controls, as the webview runs them *)

\* the text of an attribute value once the HTML parser has replaced the
\* character references escapeHtml writes, left to right in one pass
RECURSIVE decodeHtml(_)
decodeHtml(text) ==
  LET startsWith(e) == Len(text) >= Len(e) /\ SubSeq(text, 1, Len(e)) = e
      rest(e) == SubSeq(text, Len(e) + 1, Len(text))
  IN IF text = <<>> THEN <<>>
     ELSE IF startsWith(EntAmp) THEN <<"&">> \o decodeHtml(rest(EntAmp))
     ELSE IF startsWith(EntLt) THEN <<"<">> \o decodeHtml(rest(EntLt))
     ELSE IF startsWith(EntGt) THEN <<">">> \o decodeHtml(rest(EntGt))
     ELSE IF startsWith(EntQuot) THEN <<"\"">> \o decodeHtml(rest(EntQuot))
     ELSE IF startsWith(EntApos) THEN <<"'">> \o decodeHtml(rest(EntApos))
     ELSE << Head(text) >> \o decodeHtml(Tail(text))

\* the JavaScript literal 'text': its value, or no literal at all when text
\* holds a quote or a backslash
jsStringLiteral(text) ==
  [ok |-> \A k \in 1..Len(text) : text[k] \notin {"'", "\\"},
   value |-> text]

\* the control posted nothing
NoMessage == [command |-> "", url |-> <<>>]

\* the script block is script text: the parser decodes nothing in it, and
\* none of its functions exists unless it compiles
scriptRuns(doc) ==
  \A i \in 1..Len(doc) :
    doc[i].lit = ScriptReloadLit => jsStringLiteral(doc[i].val).ok

\* a click on the button whose onclick attribute is written at place i:
\* openExternal('...') with the attribute decoded, then the body of openExternal
openExternalClick(doc, i) ==
  LET arg == jsStringLiteral(decodeHtml(doc[i].val))
      frames == {f \in 1..Len(doc) : doc[f].lit = IframeOpenLit}
      frameSrc == IF frames = {} THEN <<>>
                  ELSE decodeHtml(doc[CHOOSE f \in frames : TRUE].val)
      targetUrl == IF arg.value # <<>> THEN arg.value ELSE frameSrc
  IN IF scriptRuns(doc) /\ arg.ok /\ targetUrl # <<>>
     THEN [command |-> "openExternal", url |-> targetUrl]
     ELSE NoMessage

\* a click on Reload: reloadGame() reloads the frame when there is one and
\* posts switchGame with the url written into the script otherwise
reloadGameClick(doc) ==
  LET frames == {f \in 1..Len(doc) : doc[f].lit = IframeOpenLit}
      written == {i \in 1..Len(doc) : doc[i].lit = ScriptReloadLit}
  IN IF scriptRuns(doc) /\ frames = {} /\ written # {}
     THEN [command |-> "switchGame",
           url |-> jsStringLiteral(doc[CHOOSE i \in written : TRUE].val).value]
     ELSE NoMessage

----------------------------------------------------------------------------
(* Bounds and input sets *)

\* createGamePanel is called at most MaxPanels times
MaxPanels == 3

\* values getNonce can return (32 random characters, kept as one token) when
\* the renderer is exercised on its own
Nonces == {"nonceA", "nonceB"}

\* values getNonce returns in the registry's runs, where nothing reads the token
PanelNonces == {"nonceA"}

\* urls carried by the messages a panel's content posts
MsgUrls == {UrlPlaypager, UrlJavascript, UrlNoScheme}

\* commands carried by the messages a panel's content posts; "undefined" is
\* the value of message.command when the message has no such field
MsgCommands == {"openExternal", "switchGame", "ping", "undefined"}

\* the panel's webview, as far as generate reads it
Webview == [cspSource |-> "vscode-webview://panel"]

\* the resources createGamePanel passes to generate
Resources ==
  [defined |-> TRUE, smbBg |-> "media/smb_preview.png",
   crazyGamesBg |-> "media/crazyGames.png"]

\* generate called without its optional resources argument
NoResources == [defined |-> FALSE, smbBg |-> "", crazyGamesBg |-> ""]

\* the presets loadConfig supplies when the games setting is empty
BuiltInPresets ==
  << [name |-> NameOnlineGames, url |-> UrlOnlineGames],
     [name |-> NamePlaypager,   url |-> UrlPlaypager],
     [name |-> NameCrazyGames,  url |-> UrlCrazyGames],
     [name |-> NameSmbGames,    url |-> UrlSmbGames] >>

\* the value undefined in a field of the cached configuration
Undefined == << "undefined" >>

\* the configuration loadConfig caches when the host holds no user settings
BuiltInConfig ==
  [gameUrl |-> UrlOnlineGames, games |-> BuiltInPresets,
   fallbackUrl |-> Undefined, enableErrorReporting |-> TRUE]

----------------------------------------------------------------------------
(* State *)

VARIABLES
  panelCounter,   \* TYTWebviewManager.panelCounter
  panels,         \* TYTWebviewManager.panels: the Map's entries in insertion order
  handles,        \* per createGamePanel call, in call order: the panelId it
                  \* computed and the host's panel object (inbox: what the
                  \* extension posted to the panel's content), or the
                  \* failure the host answered with
  removals,       \* per panel: the code paths that removed its entry from the Map
  disposeCalls,   \* per panel: how often the extension called panel.dispose()
  openGameCalls,  \* per handleOpenGame call, in call order: the notices it
                  \* showed and the error it threw
  externalOpened, \* the url the last step handed to vscode.env.openExternal
                  \* (<<>>: the step made no such call)
  config,         \* ExtensionConfig.config, the cached configuration
  settings,       \* the host's settings under takeYourTime, as get returns them
  lastLoad,       \* the last run of loadConfig: who called it, the settings
                  \* it read, and whether it threw
  validating,     \* which copy of WebviewManager.ts is built (see onDidReceiveMessage)
  activation,     \* the call of activate: how it ended, whether the host holds
                  \* the command, what context.subscriptions holds, the notices
                  \* shown and the error thrown
  messageParity,  \* parity of the number of messages handled so far: a handled
                  \* message is a step also when the handler changes nothing
  gen,            \* the last call of generate made on its own, and its result
                  \* (repeats: it had the arguments of the call before it, and
                  \* getNonce returned another token)
  esc             \* two strings, and what escapeHtml returned for each of
                  \* them and for the first followed by the second

vars == << panelCounter, panels, handles, removals, disposeCalls,
           openGameCalls, externalOpened, config, settings, lastLoad, validating,
           activation, messageParity, gen, esc >>

registryVars == << panelCounter, panels, handles, removals, disposeCalls,
                   openGameCalls, externalOpened, config, settings, lastLoad, validating,
                   activation, messageParity, esc >>

managerVars == << panelCounter, panels, handles, removals, disposeCalls,
                  openGameCalls, externalOpened, validating, activation,
                  messageParity, esc >>

----------------------------------------------------------------------------
(* ExtensionConfig: the getters *)

\* a getGameUrl that asks the host for the setting on every call
getGameUrlLive ==
  IF settings.gameUrl.type = "string" THEN settings.gameUrl.val ELSE config.gameUrl

\* getGameUrl()
getGameUrl == config.gameUrl

\* getGamePresets()
getGamePresets == config.games

----------------------------------------------------------------------------
(* Map<string, WebviewPanel> *)

MapHas(m, k) == \E i \in 1..Len(m) : m[i].key = k

\* a set that puts a new key in front of the others
MapSetPrepending(m, k, v) == << [key |-> k, value |-> v] >> \o m

\* Map.prototype.set: a new key is appended, an old key keeps its position
MapSet(m, k, v) ==
  IF MapHas(m, k)
  THEN [i \in 1..Len(m) |-> IF m[i].key = k THEN [key |-> k, value |-> v] ELSE m[i]]
  ELSE Append(m, [key |-> k, value |-> v])

\* Map.prototype.delete
MapDelete(m, k) == SelectSeq(m, LAMBDA e : e.key # k)

\* Array.from(map.values())
MapValues(m) == [i \in 1..Len(m) |-> m[i].value]

----------------------------------------------------------------------------
(* TYTWebviewManager *)

\* a title numbered from the second panel on, off by one
titleOfOffByOne(counter) ==
  IF counter = 1 THEN "Take Your Time"
  ELSE "Take Your Time (" \o ToString(counter - 1) \o ")"

\* a title numbered by the panels open at the time
titleOfByOpenCount(counter) ==
  IF Len(panels) = 0 THEN "Take Your Time"
  ELSE "Take Your Time (" \o ToString(Len(panels) + 1) \o ")"

\* the title createGamePanel gives the panel numbered counter
titleOf(counter) ==
  IF counter = 1 THEN "Take Your Time"
  ELSE "Take Your Time (" \o ToString(counter) \o ")"

\* a panelId that wraps around after two panels
panelIdOfWrapping(counter) == "tyt-panel-" \o ToString(counter % 2)

\* the panelId createGamePanel gives the panel numbered counter
panelIdOf(counter) == "tyt-panel-" \o ToString(counter)

\* the panels currently tracked, in the Map's order
getActivePanels == MapValues(panels)

\* the registry as one value: what the callbacks read and write
Registry ==
  [panels |-> panels, handles |-> handles, removals |-> removals,
   disposeCalls |-> disposeCalls]

\* a disposal callback that removes every entry
onDidDisposeRemovesAll(R, p) ==
  [R EXCEPT !.panels = <<>>,
            !.removals = [q \in DOMAIN R.removals |->
                            IF MapHas(R.panels, panelIdOf(q))
                            THEN Append(R.removals[q], "onDidDispose")
                            ELSE R.removals[q]]]

\* a disposal callback that is never run
onDidDisposeNotFired(R, p) == R

\* the callback createGamePanel registers with panel.onDidDispose
onDidDispose(R, p) ==
  [R EXCEPT !.panels = MapDelete(R.panels, panelIdOf(p)),
            !.removals[p] = IF MapHas(R.panels, panelIdOf(p))
                            THEN Append(@, "onDidDispose") ELSE @]

\* the host disposes panel p (the user closes the tab, or panel.dispose() asks
\* for it): the panel is gone, and its onDidDispose listeners run at once
hostDispose(R, p) ==
  IF R.handles[p].state # "live" THEN R
  ELSE onDidDispose([R EXCEPT !.handles[p].state = "disposed",
                              !.handles[p].html = <<>>], p)

\* panel.dispose(), called by the extension
panelDispose(R, p) ==
  hostDispose([R EXCEPT !.disposeCalls[p] = @ + 1], p)

\* an iteration that walks an array of the entries by index while the
\* callback shrinks it, so that every second entry is skipped
RECURSIVE forEachByIndex(_, _)
forEachByIndex(R, i) ==
  IF i > Len(R.panels) THEN R
  ELSE forEachByIndex(panelDispose(R, R.panels[i].value), i + 1)

forEachDisposeSkipping(R, visited) == forEachByIndex(R, 1)

\* this.panels.forEach(panel => panel.dispose()): Map.prototype.forEach visits
\* every entry that is in the Map when its turn comes, each once, also when
\* the callback deletes entries
RECURSIVE forEachDispose(_, _)
forEachDispose(R, visited) ==
  LET rest == SelectSeq(R.panels, LAMBDA e : e.key \notin visited) IN
  IF rest = <<>> THEN R
  ELSE forEachDispose(panelDispose(R, rest[1].value), visited \cup {rest[1].key})

\* this.panels.clear()
clear(R) ==
  [R EXCEPT !.panels = <<>>,
            !.removals = [q \in DOMAIN R.removals |->
                            IF MapHas(R.panels, panelIdOf(q))
                            THEN Append(R.removals[q], "clear")
                            ELSE R.removals[q]]]

\* disposeAll()
disposeAll(R) == clear(forEachDispose(R, {}))

\* an updateContent that renders the configured url whatever it is given
updateContentStale(h, p, url, nonce) ==
  [h EXCEPT ![p].html =
     generate(Webview, config.gameUrl, config.games, Resources, nonce)]

\* an updateContent shared by the panels: it renders into every live panel
updateContentAllPanels(h, p, url, nonce) ==
  [q \in DOMAIN h |->
     IF h[q].state = "live"
     THEN [h[q] EXCEPT !.html =
             generate(Webview, url, config.games, Resources, nonce)]
     ELSE h[q]]

\* an updateContent whose first call for a panel shows what the panel
\* before it shows now
updateContentFollowsNeighbour(h, p, url, nonce) ==
  [h EXCEPT ![p].html =
     IF h[p].html = <<>> /\ p > 1 /\ h[p - 1].html # <<>>
     THEN h[p - 1].html
     ELSE generate(Webview, url, config.games, Resources, nonce)]

\* the closure updateContent of panel p: regenerate and assign webview.html
updateContent(h, p, url, nonce) ==
  [h EXCEPT ![p].html = generate(Webview, url, getGamePresets, Resources, nonce)]

----------------------------------------------------------------------------
(* vscode.Uri.parse, as far as the message handler depends on it *)

Digits == {"0", "1", "2", "3", "4", "5", "6", "7", "8", "9"}

WordChars ==
  {UpperCase[k] : k \in 1..Len(UpperCase)} \cup
  {LowerCase[k] : k \in 1..Len(LowerCase)} \cup Digits \cup {"_"}

SchemeHttp == <<"h", "t", "t", "p">>
SchemeHttps == <<"h", "t", "t", "p", "s">>
SchemeFile == <<"f", "i", "l", "e">>

\* the text before the first ':' when no '/', '?' or '#' comes before it
schemeOf(value) ==
  LET colons == {i \in 1..Len(value) : value[i] = ":"} IN
  IF colons = {} THEN <<>>
  ELSE LET first == CHOOSE i \in colons : \A j \in colons : i <= j
           head  == SubSeq(value, 1, first - 1)
       IN IF \E j \in 1..Len(head) : head[j] \in {"/", "?", "#"}
          THEN <<>> ELSE head

\* Uri.parse(value, strict): ok is FALSE when it throws.  A missing scheme
\* throws in strict mode and becomes "file" otherwise; a scheme with an
\* illegal character always throws
UriParse(value, strict) ==
  LET scheme == schemeOf(value) IN
  IF scheme = <<>>
  THEN [ok |-> ~strict, scheme |-> IF strict THEN <<>> ELSE SchemeFile]
  ELSE [ok |-> /\ scheme[1] \in WordChars
               /\ \A j \in 2..Len(scheme) : scheme[j] \in WordChars \cup {"+", ".", "-"},
        scheme |-> scheme]

----------------------------------------------------------------------------
(* ExtensionConfig *)

\* values vscodeConfig.get can return, with their JavaScript type
JsUndefined == [type |-> "undefined", val |-> <<>>]
JsString(chars) == [type |-> "string", val |-> chars]
JsBoolean(b) == [type |-> "boolean", val |-> << IF b THEN "true" ELSE "false" >>]
JsArray(elements) == [type |-> "array", val |-> elements]

\* the left operand of || is kept: the value is neither undefined nor ''
truthy(v) == v.type # "undefined" /\ ~(v.type = "string" /\ v.val = <<>>)

\* schemes for which new URL(...) requires a host
SpecialSchemes == { SchemeHttp, SchemeHttps }

\* characters new URL(...) does not accept in a host
ForbiddenHostChars == { " ", "<", ">", "[", "]", "^", "|", "\\" }

\* z.string().url(): new URL(value) does not throw.  The value needs a scheme
\* (a letter, then letters, digits, +, - or .); an http(s) value needs a host
\* without forbidden characters as well
ZodUrl(value) ==
  LET scheme == schemeOf(value) IN
  /\ scheme # <<>>
  /\ scheme[1] \in WordChars \ (Digits \cup {"_"})
  /\ \A j \in 2..Len(scheme) : scheme[j] \in (WordChars \ {"_"}) \cup {"+", ".", "-"}
  /\ toLowerCase(scheme) \in SpecialSchemes =>
       LET rest == SubSeq(value, Len(scheme) + 2, Len(value))
           slashes == {i \in 0..Len(rest) : \A j \in 1..i : rest[j] \in {"/", "\\"}}
           from == (CHOOSE i \in slashes : \A j \in slashes : j <= i) + 1
           ends == {i \in from..Len(rest) : rest[i] \in {"/", "?", "#"}}
           to == IF ends = {} THEN Len(rest)
                 ELSE (CHOOSE i \in ends : \A j \in ends : i <= j) - 1
           host == SubSeq(rest, from, to)
       IN /\ host # <<>>
          /\ \A j \in 1..Len(host) : host[j] \notin ForbiddenHostChars

\* GamePresetSchema: name a string, url a string that is a URL
GamePresetSchema(preset) ==
  /\ preset.name.type = "string"
  /\ preset.url.type = "string" /\ ZodUrl(preset.url.val)

\* ConfigSchema.parse(rawConfig): ok is FALSE when it throws
ConfigSchema(rawConfig) ==
  LET ok ==
        /\ rawConfig.gameUrl.type = "string" /\ ZodUrl(rawConfig.gameUrl.val)
        /\ rawConfig.games.type = "array"
        /\ \A k \in 1..Len(rawConfig.games.val) :
             GamePresetSchema(rawConfig.games.val[k])
        /\ \/ rawConfig.fallbackUrl.type = "undefined"
           \/ /\ rawConfig.fallbackUrl.type = "string"
              /\ ZodUrl(rawConfig.fallbackUrl.val)
        /\ rawConfig.enableErrorReporting.type = "boolean"
  IN [ok |-> ok,
      value |->
        IF ok
        THEN [gameUrl |-> rawConfig.gameUrl.val,
              games |-> [k \in 1..Len(rawConfig.games.val) |->
                           [name |-> rawConfig.games.val[k].name.val,
                            url |-> rawConfig.games.val[k].url.val]],
              fallbackUrl |-> IF rawConfig.fallbackUrl.type = "undefined"
                              THEN Undefined ELSE rawConfig.fallbackUrl.val,
              enableErrorReporting |->
                rawConfig.enableErrorReporting.val = << "true" >>]
        ELSE Undefined]

\* a preset as a value of the settings
JsPreset(name, url) == [name |-> JsString(name), url |-> JsString(url)]

\* a rawConfig that keeps an empty list of presets empty
rawConfigOfNoPush(vscodeConfig) ==
  LET games == IF vscodeConfig.games.type # "undefined"
               THEN vscodeConfig.games ELSE JsArray(<<>>)
  IN [gameUrl |-> IF truthy(vscodeConfig.gameUrl)
                  THEN vscodeConfig.gameUrl ELSE JsString(UrlOnlineGames),
      games |-> games,
      fallbackUrl |-> IF truthy(vscodeConfig.fallbackUrl)
                      THEN vscodeConfig.fallbackUrl ELSE JsUndefined,
      enableErrorReporting |->
        IF vscodeConfig.enableErrorReporting.type = "undefined"
        THEN JsBoolean(TRUE) ELSE vscodeConfig.enableErrorReporting]

\* rawConfig as loadConfig builds it from the settings, the built-in presets
\* pushed when the list is empty
rawConfigOf(vscodeConfig) ==
  LET games == IF vscodeConfig.games.type # "undefined"
               THEN vscodeConfig.games ELSE JsArray(<<>>)
  IN [gameUrl |-> IF truthy(vscodeConfig.gameUrl)
                  THEN vscodeConfig.gameUrl ELSE JsString(UrlOnlineGames),
      games |-> IF games.type = "array" /\ Len(games.val) = 0
                THEN JsArray([k \in 1..Len(BuiltInPresets) |->
                               JsPreset(BuiltInPresets[k].name,
                                        BuiltInPresets[k].url)])
                ELSE games,
      fallbackUrl |-> IF truthy(vscodeConfig.fallbackUrl)
                      THEN vscodeConfig.fallbackUrl ELSE JsUndefined,
      enableErrorReporting |->
        IF vscodeConfig.enableErrorReporting.type = "undefined"
        THEN JsBoolean(TRUE) ELSE vscodeConfig.enableErrorReporting]

\* the defaults of loadConfig's catch block
HardcodedDefaults ==
  [gameUrl |-> UrlOnlineGames,
   games |-> << [name |-> NameOnlineGames, url |-> UrlOnlineGames] >>,
   fallbackUrl |-> Undefined, enableErrorReporting |-> TRUE]

\* a loader that lets the validation error escape: nothing is returned
loadConfigNoCatch(vscodeConfig) ==
  LET parsed == ConfigSchema(rawConfigOf(vscodeConfig)) IN
  IF parsed.ok THEN [threw |-> FALSE, value |-> parsed.value]
  ELSE [threw |-> TRUE, value |-> HardcodedDefaults]

\* a loader that falls back field by field: a valid field is kept
loadConfigPerField(vscodeConfig) ==
  LET raw == rawConfigOf(vscodeConfig)
      parsed == ConfigSchema(raw)
  IN IF parsed.ok THEN [threw |-> FALSE, value |-> parsed.value]
     ELSE [threw |-> FALSE,
           value |-> [HardcodedDefaults EXCEPT
                        !.gameUrl = IF raw.gameUrl.type = "string"
                                       /\ ZodUrl(raw.gameUrl.val)
                                    THEN raw.gameUrl.val ELSE @]]

\* loadConfig(): the parsed settings, or the defaults when anything in the try
\* block throws; threw tells whether loadConfig itself throws
loadConfig(vscodeConfig) ==
  LET parsed == ConfigSchema(rawConfigOf(vscodeConfig)) IN
  IF parsed.ok THEN [threw |-> FALSE, value |-> parsed.value]
  ELSE [threw |-> FALSE, value |-> HardcodedDefaults]

\* the settings of a host in which the user has set nothing
NoUserSettings ==
  [gameUrl |-> JsUndefined, games |-> JsUndefined,
   fallbackUrl |-> JsUndefined, enableErrorReporting |-> JsUndefined]

\* values of the four settings the user can write
GameUrlSettings == { JsUndefined, JsString(UrlPlaypager), JsString(UrlNoScheme) }
GamesSettings ==
  { JsUndefined,
    JsArray(<<>>),
    JsArray(<< JsPreset(NameTest, UrlSmbGames) >>),
    JsArray(<< JsPreset(NameTest, UrlNoScheme) >>) }
FallbackUrlSettings == { JsUndefined, JsString(UrlCrazyGames), JsString(UrlNoScheme) }
ErrorReportingSettings == { JsUndefined, JsBoolean(FALSE), JsString(NameTest) }

\* the settings the host can hold
SettingsChoices ==
  { [gameUrl |-> g, games |-> a, fallbackUrl |-> f, enableErrorReporting |-> e] :
      g \in GameUrlSettings, a \in GamesSettings,
      f \in FallbackUrlSettings, e \in ErrorReportingSettings }

----------------------------------------------------------------------------
(* The message handler createGamePanel registers for panel p *)

\* what a message can change: the panels' content and the external open
\* (none made yet when the handler starts)
Surface == [handles |-> handles, externalOpened |-> <<>>]

\* a handler whose second branch is taken for every other command
onDidReceiveMessageElseSwitches(M, p, message, nonce) ==
  IF message.command = "openExternal"
  THEN IF UriParse(message.url, FALSE).ok
       THEN [M EXCEPT !.externalOpened = message.url]
       ELSE M
  ELSE [M EXCEPT !.handles = updateContent(M.handles, p, message.url, nonce)]

\* as written in src/webview/WebviewManager.ts: the url is used as it comes
onDidReceiveMessage(M, p, message, nonce) ==
  IF message.command = "openExternal"
  THEN IF UriParse(message.url, FALSE).ok
       THEN [M EXCEPT !.externalOpened = message.url]
       ELSE M
  ELSE IF message.command = "switchGame"
  THEN [M EXCEPT !.handles = updateContent(M.handles, p, message.url, nonce)]
  ELSE M

\* as written in the second copy of WebviewManager.ts: the url is parsed in
\* strict mode and only the schemes http and https pass
onDidReceiveMessageValidating(M, p, message, nonce) ==
  LET uri == UriParse(message.url, TRUE)
      pass == uri.ok /\ uri.scheme \in {SchemeHttp, SchemeHttps}
  IN
  IF message.command = "openExternal"
  THEN IF pass THEN [M EXCEPT !.externalOpened = message.url] ELSE M
  ELSE IF message.command = "switchGame"
  THEN IF pass
       THEN [M EXCEPT !.handles = updateContent(M.handles, p, message.url, nonce)]
       ELSE M
  ELSE M

----------------------------------------------------------------------------
(* Initial state *)

NoGen ==
  [called |-> FALSE, repeats |-> FALSE, gameUrl |-> <<>>, gamePresets |-> <<>>,
   resources |-> NoResources, nonce |-> "", html |-> <<>>]

\* the host calls activate can fail in: registerCommand (the id is taken)
\* and showInformationMessage
ActivationFailures ==
  { "registerCommand failed", "showInformationMessage failed" }

\* no error: activate returned
NoActivationError ==
  [name |-> "", code |-> "", message |-> "", context |-> [error |-> ""]]

\* new ExtensionError(message, context)
ExtensionError(message, context) ==
  [name |-> "ExtensionError", code |-> "EXTENSION_ERROR", message |-> message,
   context |-> context]

\* vscode.window.showInformationMessage at the end of activate's try block
ActivatedNotice ==
  [kind |-> "information", text |-> "Take Your Time extension activated!"]

\* vscode.window.showErrorMessage in the catch block of activate
ActivationFailedNotice ==
  [kind |-> "error", text |-> "Failed to activate Take Your Time extension"]

\* activate has not been called
Inactive ==
  [state |-> "inactive", registered |-> FALSE, boundTo |-> "",
   subscriptions |-> <<>>, notices |-> <<>>, thrown |-> NoActivationError]

\* the catch block of activate: notify and rethrow wrapped; what the try
\* block registered and pushed by then stays
activateCatch(failure, registered, pushed) ==
  [state |-> "failed", registered |-> registered,
   boundTo |-> IF registered THEN "handleOpenGame" ELSE "",
   subscriptions |-> pushed,
   notices |-> << ActivationFailedNotice >>,
   thrown |-> ExtensionError("Failed to activate extension",
                             [error |-> failure])]

\* activate(context), the host answering its calls with failure ("": none).
\* The three constructors do not throw (loadConfig catches its own errors).
activate(failure) ==
  LET registered == failure # "registerCommand failed"
      pushed == IF registered THEN << "takeYourTime.openGame" >> ELSE <<>>
  IN IF failure = ""
     THEN [state |-> "active", registered |-> TRUE,
           boundTo |-> "handleOpenGame", subscriptions |-> pushed,
           notices |-> << ActivatedNotice >>, thrown |-> NoActivationError]
     ELSE activateCatch(failure, registered, pushed)

\* the objects activate constructs: the configuration is loaded from the
\* settings the host holds, the manager starts empty
Constructed(vscodeConfig) ==
  /\ panelCounter = 0
  /\ panels = <<>>
  /\ handles = <<>>
  /\ removals = <<>>
  /\ disposeCalls = <<>>
  /\ openGameCalls = <<>>
  /\ externalOpened = <<>>
  /\ settings = vscodeConfig
  /\ lastLoad = [by |-> "constructor", read |-> vscodeConfig,
                 threw |-> loadConfig(vscodeConfig).threw]
  /\ config = loadConfig(vscodeConfig).value
  /\ validating \in BOOLEAN
  /\ messageParity = 0
  /\ gen = NoGen

\* escapeHtml has not been called on its own
NoEsc == [called |-> FALSE, a |-> <<>>, b |-> <<>>,
          ofA |-> <<>>, ofB |-> <<>>, ofAB |-> <<>>]

\* activate() has returned
InitWith(vscodeConfig) ==
  /\ Constructed(vscodeConfig)
  /\ activation = activate("")
  /\ esc = NoEsc

Init == InitWith(NoUserSettings)

----------------------------------------------------------------------------
(* Actions *)

LivePanels == {p \in 1..Len(handles) : handles[p].state = "live"}

\* the failures the host can answer createWebviewPanel with
HostFailures == { "createWebviewPanel failed" }

\* no error: the call returned
NoError ==
  [name |-> "", code |-> "", message |-> "", commandId |-> "",
   context |-> [error |-> "", commandId |-> ""]]

\* new CommandError(message, commandId, context)
CommandError(message, commandId, context) ==
  [name |-> "CommandError", code |-> "COMMAND_ERROR", message |-> message,
   commandId |-> commandId,
   context |-> [error |-> context.error, commandId |-> commandId]]

\* vscode.window.showInformationMessage at the start of handleOpenGame
OpeningNotice ==
  [kind |-> "information", text |-> "Opening Take Your Time game..."]

\* vscode.window.showErrorMessage in the catch block of handleOpenGame
FailedNotice ==
  [kind |-> "error",
   text |-> "Failed to open Take Your Time game. Please try again."]

\* a catch block that shows the notice and returns
handleOpenGameCatchSwallows(error) ==
  [notices |-> << FailedNotice >>, thrown |-> NoError]

\* the catch block of handleOpenGame: wrap, notify, rethrow
handleOpenGameCatch(error) ==
  [notices |-> << FailedNotice >>,
   thrown |-> CommandError("Failed to open game panel", "takeYourTime.openGame",
                           [error |-> error])]

\* a reveal of the first panel ever created
revealFirstPanel(h, m, p) ==
  [h EXCEPT ![1].revealed = TRUE,
            ![1].atReveal = [content |-> h[1].html # <<>>,
                             tracked |-> \E i \in 1..Len(m) : m[i].value = 1]]

\* panel.reveal() on panel p; atReveal notes what the panel had by then
reveal(h, m, p) ==
  [h EXCEPT ![p].revealed = TRUE,
            ![p].atReveal = [content |-> h[p].html # <<>>,
                             tracked |-> \E i \in 1..Len(m) : m[i].value = p]]

\* the command takeYourTime.openGame is invoked, the host creating the panel:
\* handleOpenGame's createGamePanel runs to its end and the panel it returns
\* is revealed
HandleOpenGame ==
  /\ activation.registered
  /\ panelCounter < MaxPanels
  /\ \E nonce \in PanelNonces :
       LET counter == panelCounter + 1
           panel == [state |-> "live", panelId |-> panelIdOf(counter),
                     title |-> titleOf(counter), html |-> <<>>,
                     inbox |-> <<>>, revealed |-> FALSE,
                     atReveal |-> [content |-> FALSE, tracked |-> FALSE],
                     failure |-> ""]
           created == updateContent(Append(handles, panel), counter,
                                    getGameUrl, nonce)
           registered == MapSet(panels, panelIdOf(counter), counter)
       IN /\ panelCounter' = counter
          /\ handles' = reveal(created, registered, counter)
          /\ panels' = registered
          /\ removals' = Append(removals, <<>>)
          /\ disposeCalls' = Append(disposeCalls, 0)
  /\ openGameCalls' = Append(openGameCalls,
                             [notices |-> << OpeningNotice >>, thrown |-> NoError])
  /\ externalOpened' = <<>>
  /\ UNCHANGED << config, settings, lastLoad, validating, activation,
                  messageParity, gen, esc >>

\* handleOpenGame, the host failing to create the panel: the counter is
\* already incremented, nothing is tracked, and the catch block runs
HandleOpenGameFails ==
  /\ activation.registered
  /\ panelCounter < MaxPanels
  /\ \E error \in HostFailures :
       LET caught == handleOpenGameCatch(error) IN
       /\ handles' = Append(handles,
                            [state |-> "failed",
                             panelId |-> panelIdOf(panelCounter + 1),
                             title |-> "", html |-> <<>>,
                             inbox |-> <<>>, revealed |-> FALSE,
                             atReveal |-> [content |-> FALSE, tracked |-> FALSE],
                             failure |-> error])
       /\ openGameCalls' = Append(openGameCalls,
                                  [notices |-> << OpeningNotice >> \o caught.notices,
                                   thrown |-> caught.thrown])
  /\ panelCounter' = panelCounter + 1
  /\ removals' = Append(removals, <<>>)
  /\ disposeCalls' = Append(disposeCalls, 0)
  /\ externalOpened' = <<>>
  /\ UNCHANGED << panels, config, settings, lastLoad, validating, activation,
                  messageParity, gen, esc >>

\* the failures of the first updateContent call: a host call made while the
\* document is put together or assigned throws
ContentFailures == { "initial content failed" }

\* a createGamePanel that enters the panel into the Map before it renders
HandleOpenGameContentFailsTracked ==
  /\ activation.registered
  /\ panelCounter < MaxPanels
  /\ \E error \in ContentFailures :
       LET caught == handleOpenGameCatch(error) IN
       /\ handles' = Append(handles,
                            [state |-> "orphan",
                             panelId |-> panelIdOf(panelCounter + 1),
                             title |-> titleOf(panelCounter + 1), html |-> <<>>,
                             inbox |-> <<>>, revealed |-> FALSE,
                             atReveal |-> [content |-> FALSE, tracked |-> FALSE],
                             failure |-> error])
       /\ openGameCalls' = Append(openGameCalls,
                                  [notices |-> << OpeningNotice >> \o caught.notices,
                                   thrown |-> caught.thrown])
  /\ panelCounter' = panelCounter + 1
  /\ panels' = MapSet(panels, panelIdOf(panelCounter + 1), panelCounter + 1)
  /\ removals' = Append(removals, <<>>)
  /\ disposeCalls' = Append(disposeCalls, 0)
  /\ externalOpened' = <<>>
  /\ UNCHANGED << config, settings, lastLoad, validating, activation,
                  messageParity, gen, esc >>

\* handleOpenGame, the first updateContent throwing: the host has created the
\* panel, no handler is attached to it and nothing is tracked; the catch block
\* runs
HandleOpenGameContentFails ==
  /\ activation.registered
  /\ panelCounter < MaxPanels
  /\ \E error \in ContentFailures :
       LET caught == handleOpenGameCatch(error) IN
       /\ handles' = Append(handles,
                            [state |-> "orphan",
                             panelId |-> panelIdOf(panelCounter + 1),
                             title |-> titleOf(panelCounter + 1), html |-> <<>>,
                             inbox |-> <<>>, revealed |-> FALSE,
                             atReveal |-> [content |-> FALSE, tracked |-> FALSE],
                             failure |-> error])
       /\ openGameCalls' = Append(openGameCalls,
                                  [notices |-> << OpeningNotice >> \o caught.notices,
                                   thrown |-> caught.thrown])
  /\ panelCounter' = panelCounter + 1
  /\ removals' = Append(removals, <<>>)
  /\ disposeCalls' = Append(disposeCalls, 0)
  /\ externalOpened' = <<>>
  /\ UNCHANGED << panels, config, settings, lastLoad, validating, activation,
                  messageParity, gen, esc >>

\* the user closes the tab of panel p: the host disposes it
HostDisposes(p) ==
  /\ p \in LivePanels
  /\ LET R == hostDispose(Registry, p) IN
       /\ panels' = R.panels
       /\ handles' = R.handles
       /\ removals' = R.removals
       /\ disposeCalls' = R.disposeCalls
  /\ externalOpened' = <<>>
  /\ UNCHANGED << panelCounter, openGameCalls, config, settings, lastLoad,
                  validating, activation, messageParity, gen, esc >>

\* the content of live panel p posts a message
ReceiveMessage(p, command, url) ==
  /\ p \in LivePanels
  /\ \E nonce \in PanelNonces :
       LET message == [command |-> command, url |-> url]
           M == IF validating
                THEN onDidReceiveMessageValidating(Surface, p, message, nonce)
                ELSE onDidReceiveMessage(Surface, p, message, nonce)
       IN /\ handles' = M.handles
          /\ externalOpened' = M.externalOpened
  /\ messageParity' = 1 - messageParity
  /\ UNCHANGED << panelCounter, panels, removals, disposeCalls, openGameCalls,
                  config, settings, lastLoad, validating, activation, gen,
                  esc >>

\* disposeAll()
DisposeAll ==
  /\ LET R == disposeAll(Registry) IN
       /\ panels' = R.panels
       /\ handles' = R.handles
       /\ removals' = R.removals
       /\ disposeCalls' = R.disposeCalls
  /\ externalOpened' = <<>>
  /\ UNCHANGED << panelCounter, openGameCalls, config, settings, lastLoad,
                  validating, activation, messageParity, gen, esc >>

Next ==
  \/ HandleOpenGame
  \/ HandleOpenGameFails
  \/ \E p \in 1..MaxPanels : HostDisposes(p)
  \/ \E p \in 1..MaxPanels, command \in MsgCommands, url \in MsgUrls :
       ReceiveMessage(p, command, url)
  \/ DisposeAll

Spec == Init /\ [][Next]_vars

----------------------------------------------------------------------------
(* The content renderer on its own *)

\* target urls generate is called with
GenUrls ==
  {UrlOnlineGames, UrlPlaypager, UrlCrazyGames, UrlSmbGames, UrlCrazyUpper,
   UrlMarioPath, UrlMarioAmp, UrlMalicious, UrlAmpQuote}

\* preset lists generate is called with
GenPresetLists ==
  { <<>>,
    BuiltInPresets,
    << [name |-> NameTest, url |-> UrlSmbGames] >>,
    << [name |-> NameTest, url |-> UrlMalicious] >>,
    << [name |-> NameMarkup, url |-> UrlAmpQuote],
       [name |-> NameTest, url |-> UrlPlaypager] >> }

\* a call WebviewContentGenerator.generate(webview, gameUrl, gamePresets, resources)
Generate ==
  /\ \E gameUrl \in GenUrls, gamePresets \in GenPresetLists,
        resources \in {Resources, NoResources}, nonce \in Nonces :
       gen' = [called |-> TRUE,
               repeats |-> /\ gen.called
                           /\ gen.gameUrl = gameUrl
                           /\ gen.gamePresets = gamePresets
                           /\ gen.resources = resources
                           /\ gen.nonce # nonce,
               gameUrl |-> gameUrl, gamePresets |-> gamePresets,
               resources |-> resources, nonce |-> nonce,
               html |-> generate(Webview, gameUrl, gamePresets, resources, nonce)]
  /\ UNCHANGED registryVars

\* generate is called from outside while the command opens panels
GenNext == Generate \/ HandleOpenGame

GenSpec == Init /\ [][GenNext]_vars

----------------------------------------------------------------------------
(* The configuration on its own *)

\* the extension is activated in a host that holds any of the settings
ConfigInit == \E vscodeConfig \in SettingsChoices : InitWith(vscodeConfig)

\* the user edits the settings; the extension is not told
ChangeSettingsTo(choices) ==
  /\ \E vscodeConfig \in choices \ {settings} : settings' = vscodeConfig
  /\ UNCHANGED << managerVars, config, lastLoad, gen >>

ChangeSettings == ChangeSettingsTo(SettingsChoices)

\* reload(): this.config = this.loadConfig()
Reload ==
  /\ LET loaded == loadConfig(settings) IN
       /\ lastLoad' = [by |-> "reload", read |-> settings,
                       threw |-> loaded.threw]
       /\ config' = IF loaded.threw THEN config ELSE loaded.value
  /\ UNCHANGED << managerVars, settings, gen >>

ConfigNext == ChangeSettings \/ Reload

ConfigSpec == ConfigInit /\ [][ConfigNext]_vars

----------------------------------------------------------------------------
(* The cached configuration while panels are opened *)

\* the user leaves the settings alone or sets another primary url
CachedSettings ==
  { NoUserSettings, [NoUserSettings EXCEPT !.gameUrl = JsString(UrlPlaypager)] }

\* the settings are edited and reloaded while the command, the host and the
\* panels' content act on the registry
CachedNext ==
  \/ ChangeSettingsTo(CachedSettings)
  \/ Reload
  \/ HandleOpenGame
  \/ \E p \in 1..MaxPanels : HostDisposes(p)
  \/ \E p \in 1..MaxPanels : ReceiveMessage(p, "switchGame", UrlOnlineGames)
  \/ DisposeAll

CachedSpec == Init /\ [][CachedNext]_vars

----------------------------------------------------------------------------
(* The command with every way createGamePanel can end *)

OpenNext ==
  \/ HandleOpenGame
  \/ HandleOpenGameFails
  \/ HandleOpenGameContentFails
  \/ \E p \in 1..MaxPanels : HostDisposes(p)
  \/ DisposeAll

OpenSpec == Init /\ [][OpenNext]_vars

----------------------------------------------------------------------------
(* escapeHtml on its own *)

\* the pieces the arguments are put together from: the reserved characters,
\* a letter, and text that looks like an entity or like the tail of one
EscFragments ==
  { <<"&">>, <<"<">>, <<">">>, <<"\"">>, <<"'">>, <<"a">>, <<";">>,
    EntAmp, EntApos, <<"l", "t", ";">> }

\* the arguments: nothing, one piece, or two pieces
EscInputs ==
  {<<>>} \cup EscFragments \cup {x \o y : x \in EscFragments, y \in EscFragments}

\* two strings are at hand
EscInit ==
  /\ Constructed(NoUserSettings)
  /\ activation = activate("")
  /\ \E a \in EscInputs, b \in EscInputs :
       esc = [NoEsc EXCEPT !.a = a, !.b = b]

\* escapeHtml(a), escapeHtml(b), escapeHtml(a + b)
Escape ==
  /\ ~esc.called
  /\ esc' = [esc EXCEPT !.called = TRUE,
                        !.ofA = escapeHtml(esc.a),
                        !.ofB = escapeHtml(esc.b),
                        !.ofAB = escapeHtml(esc.a \o esc.b)]
  /\ externalOpened' = <<>>
  /\ UNCHANGED << panelCounter, panels, handles, removals, disposeCalls,
                  openGameCalls, config, settings, lastLoad, validating,
                  activation, messageParity, gen >>

EscNext == Escape

EscSpec == EscInit /\ [][EscNext]_vars

----------------------------------------------------------------------------
(* Activation *)

\* the extension is loaded and activate has not been called yet
ActivateInit ==
  /\ Constructed(NoUserSettings)
  /\ activation = Inactive
  /\ esc = NoEsc

\* the host calls activate(context)
Activate ==
  /\ activation.state = "inactive"
  /\ \E failure \in ActivationFailures \cup {""} :
       activation' = activate(failure)
  /\ externalOpened' = <<>>
  /\ UNCHANGED << panelCounter, panels, handles, removals, disposeCalls,
                  openGameCalls, config, settings, lastLoad, validating,
                  messageParity, gen, esc >>

ActivateNext ==
  \/ Activate
  \/ HandleOpenGame
  \/ HandleOpenGameFails
  \/ \E p \in 1..MaxPanels : HostDisposes(p)

ActivateSpec == ActivateInit /\ [][ActivateNext]_vars

----------------------------------------------------------------------------
(* Vocabulary of the properties *)

\* a setting the loader reads fails the schema: a url that is set and is not
\* a well-formed url, a preset whose url is not one, a flag that is not a
\* boolean
InvalidField(read) ==
  \/ truthy(read.gameUrl) /\ ~ZodUrl(read.gameUrl.val)
  \/ \E k \in 1..Len(read.games.val) : ~ZodUrl(read.games.val[k].url.val)
  \/ truthy(read.fallbackUrl) /\ ~ZodUrl(read.fallbackUrl.val)
  \/ read.enableErrorReporting.type \notin {"undefined", "boolean"}

\* the four fields as one reading of the settings gives them
ReadingOf(read) ==
  [gameUrl |-> IF truthy(read.gameUrl) THEN read.gameUrl.val ELSE UrlOnlineGames,
   games |-> IF Len(read.games.val) = 0 THEN BuiltInPresets
             ELSE [k \in 1..Len(read.games.val) |->
                     [name |-> read.games.val[k].name.val,
                      url |-> read.games.val[k].url.val]],
   fallbackUrl |-> IF truthy(read.fallbackUrl) THEN read.fallbackUrl.val
                   ELSE Undefined,
   enableErrorReporting |-> read.enableErrorReporting.val # << "false" >>]

\* panel p has an entry in the registry
Tracked(p) == \E i \in 1..Len(panels) : panels[i].value = p

\* the url starts with "http:" or "https:"
HttpScheme(url) ==
  \/ Len(url) >= 5 /\ SubSeq(url, 1, 5) = <<"h", "t", "t", "p", ":">>
  \/ Len(url) >= 6 /\ SubSeq(url, 1, 6) = <<"h", "t", "t", "p", "s", ":">>

\* the host of an absolute url: the text between "//" and the next "/"
hostOf(url) ==
  LET starts == {i \in 1..(Len(url) - 1) : url[i] = "/" /\ url[i + 1] = "/"} IN
  IF starts = {} THEN <<>>
  ELSE LET from == (CHOOSE i \in starts : \A j \in starts : i <= j) + 2
           ends == {i \in from..Len(url) : url[i] = "/"}
           to   == IF ends = {} THEN Len(url)
                   ELSE (CHOOSE i \in ends : \A j \in ends : i <= j) - 1
       IN SubSeq(url, from, to)

\* a denylist fragment occurs in s, whatever the case of its letters
HoldsFragment(s) ==
  \E frag \in {FragSmbGames, FragMario, FragCrazyGames} :
    includes(toLowerCase(s), frag)

\* the places of the document where an embedding frame opens
Frames(doc) == {i \in 1..Len(doc) : doc[i].lit = IframeOpenLit}

\* character-by-character escaping of the five reserved characters
RECURSIVE EscapedForm(_)
EscapedForm(s) ==
  IF s = <<>> THEN <<>>
  ELSE (CASE Head(s) = "&"  -> EntAmp
          [] Head(s) = "<"  -> EntLt
          [] Head(s) = ">"  -> EntGt
          [] Head(s) = "\"" -> EntQuot
          [] Head(s) = "'"  -> EntApos
          [] OTHER          -> <<Head(s)>>) \o EscapedForm(Tail(s))

\* the values the document interpolates from the expression named src, in order
ValuesFrom(doc, src) ==
  LET at == SelectSeq(doc, LAMBDA piece : piece.src = src)
  IN [i \in 1..Len(at) |-> at[i].val]

----------------------------------------------------------------------------
(* C1 *)

\* C1: from a fresh manager, N calls of createGamePanel that all succeed (and
\* no disposal) leave N entries with distinct ids, tracked in creation order,
\* titled "Take Your Time", "Take Your Time (2)", ..., "Take Your Time (N)"
C1_TitlesInCreationOrder ==
  (\A p \in 1..Len(handles) : handles[p].state = "live") =>
    /\ Len(panels) = panelCounter
    /\ \A i \in 1..Len(panels) :
         /\ panels[i].value = i
         /\ handles[i].title =
              (IF i = 1 THEN "Take Your Time"
               ELSE "Take Your Time (" \o ToString(i) \o ")")
    /\ \A i, j \in 1..Len(panels) : i # j => panels[i].key # panels[j].key

C1_ThreeCreated ==
  /\ panelCounter = 3
  /\ Len(panels) = 3
  /\ handles[1].title = "Take Your Time"
  /\ handles[2].title = "Take Your Time (2)"
  /\ handles[3].title = "Take Your Time (3)"

----------------------------------------------------------------------------
(* C2 *)

\* C2: when the host disposes tracked panel p, the registry loses exactly the
\* entry of p; every other entry stays where it was, with its id, and its
\* panel keeps its title and stays live
C2_DisposalRemovesExactlyOne ==
  [][\A p \in 1..MaxPanels :
       HostDisposes(p) =>
         /\ Tracked(p)
         /\ panels' = SelectSeq(panels, LAMBDA e : e.value # p)
         /\ Len(panels') = Len(panels) - 1
         /\ \A q \in 1..Len(handles) :
              q # p => /\ handles'[q].title = handles[q].title
                       /\ handles'[q].state = handles[q].state]_vars

C2_SecondOfThreeClosed ==
  /\ panelCounter = 3
  /\ [i \in 1..Len(panels) |-> panels[i].value] = <<1, 3>>
  /\ handles[2].state = "disposed"
  /\ disposeCalls[2] = 0
  /\ handles[1].title = "Take Your Time"
  /\ handles[3].title = "Take Your Time (3)"

----------------------------------------------------------------------------
(* C3 *)

\* C3: a switchGame message with an http or https url, received for live
\* panel p, makes the document of p the one generated for that url and the
\* cached presets
C3_ValidSwitchRenders ==
  [][\A p \in 1..MaxPanels, url \in MsgUrls :
       (HttpScheme(url) /\ messageParity' # messageParity
          /\ ReceiveMessage(p, "switchGame", url)) =>
         \E nonce \in PanelNonces :
           handles'[p].html =
             generate(Webview, url, config.games, Resources, nonce)]_vars

C3_SwitchedToPlaypager ==
  \E p \in LivePanels :
    \E i \in Frames(handles[p].html) : handles[p].html[i].val = UrlPlaypager

----------------------------------------------------------------------------
(* C4 *)

\* C4: a switchGame message whose url is unparsable or has a scheme other
\* than http/https leaves the document of the panel as it was
C4_InvalidSwitchChangesNothing ==
  [][\A p \in 1..MaxPanels, url \in MsgUrls :
       (~HttpScheme(url) /\ messageParity' # messageParity
          /\ ReceiveMessage(p, "switchGame", url)) =>
         handles'[p].html = handles[p].html]_vars

----------------------------------------------------------------------------
(* C5 *)

\* C5: an openExternal message reaches the host's external-open capability
\* if and only if its url has the scheme http or https; any other message
\* of that kind changes nothing
C5_OpenExternalOnlyHttp ==
  [][\A p \in 1..MaxPanels, url \in MsgUrls :
       (messageParity' # messageParity
        /\ ReceiveMessage(p, "openExternal", url)) =>
         IF HttpScheme(url)
         THEN externalOpened' = url
         ELSE /\ externalOpened' = <<>>
              /\ UNCHANGED << panelCounter, panels, handles, removals,
                              disposeCalls, config >>]_vars

----------------------------------------------------------------------------
(* C6 *)

----------------------------------------------------------------------------
(* C7 *)

\* C7: generate, called with the game url of the test and a preset list that
\* holds it, returns a document with an <iframe whose src is that url
C7_TestUrlIsEmbedded ==
  ( /\ gen.called
    /\ gen.gameUrl = UrlSmbGames
    /\ \E k \in 1..Len(gen.gamePresets) : gen.gamePresets[k].url = gen.gameUrl )
  => \E i \in Frames(gen.html) : gen.html[i].val = gen.gameUrl

----------------------------------------------------------------------------
(* C8 *)

\* C8: the target url at each place it is interpolated, and every preset
\* url and preset name, appear in their escaped form; no value taken from
\* them holds a raw <, >, " or ', and the script tag of the test's url is
\* never found raw
C8_InterpolationsEscaped ==
  gen.called =>
    /\ ValuesFrom(gen.html, "gameUrl") # <<>>
    /\ \A i \in 1..Len(ValuesFrom(gen.html, "gameUrl")) :
         ValuesFrom(gen.html, "gameUrl")[i] = EscapedForm(gen.gameUrl)
    /\ ValuesFrom(gen.html, "preset.url") =
         [k \in 1..Len(gen.gamePresets) |-> EscapedForm(gen.gamePresets[k].url)]
    /\ ValuesFrom(gen.html, "preset.name") =
         [k \in 1..Len(gen.gamePresets) |-> EscapedForm(gen.gamePresets[k].name)]
    /\ \A i \in 1..Len(gen.html) :
         gen.html[i].src \in {"gameUrl", "preset.url", "preset.name"} =>
           /\ \A j \in 1..Len(gen.html[i].val) :
                gen.html[i].val[j] \notin {"<", ">", "\"", "'"}
           /\ ~includes(gen.html[i].val, RawScriptTag)

C8_MaliciousUrlEscaped ==
  /\ gen.called
  /\ gen.gameUrl = UrlMalicious
  /\ gen.gamePresets = << [name |-> NameTest, url |-> UrlMalicious] >>
  /\ \E i \in Frames(gen.html) : includes(gen.html[i].val, EscapedMaliciousTail)

----------------------------------------------------------------------------
(* C9 *)

\* C9: the entry of a panel leaves the Map at most once, and only by the
\* disposal callback of that panel; clear() in disposeAll never finds an
\* entry to remove.  A tracked panel has lost no entry, a disposed panel has
\* lost its entry by the callback
C9_RemovedOnceByCallback ==
  \A p \in 1..Len(handles) :
    /\ removals[p] \in {<<>>, <<"onDidDispose">>}
    /\ Tracked(p) => removals[p] = <<>>
    /\ handles[p].state = "disposed" <=> removals[p] = <<"onDidDispose">>

C9_RemovedDuringDisposeAll ==
  \E p, q \in 1..Len(handles) :
    /\ p # q
    /\ disposeCalls[p] = 1 /\ removals[p] = <<"onDidDispose">>
    /\ disposeCalls[q] = 0 /\ removals[q] = <<"onDidDispose">>

----------------------------------------------------------------------------
(* C10 *)

\* C10: disposeAll calls dispose once on each tracked panel, on no other
\* panel, and leaves the registry empty
C10_DisposeAllDisposesEachOnce ==
  [][DisposeAll =>
       /\ panels' = <<>>
       /\ \A p \in 1..Len(handles) :
            IF Tracked(p)
            THEN /\ disposeCalls'[p] = disposeCalls[p] + 1
                 /\ handles'[p].state = "disposed"
            ELSE /\ disposeCalls'[p] = disposeCalls[p]
                 /\ handles'[p].state = handles[p].state]_vars

C10_ThreeDisposedAtOnce ==
  /\ panelCounter = 3
  /\ panels = <<>>
  /\ \A p \in 1..3 : disposeCalls[p] = 1 /\ handles[p].state = "disposed"

----------------------------------------------------------------------------
(* C11 *)

\* C11: the counter equals the number of createGamePanel calls made so far
\* (0 before the first, one more per call, whether the call succeeds or not);
\* the ids the calls computed are pairwise distinct over the whole run, also
\* after disposals and disposeAll, and each tracked entry is keyed by the id
\* of its own call
C11_CounterCountsCallsIdsUnique ==
  /\ panelCounter = Len(handles)
  /\ \A p, q \in 1..Len(handles) :
       p # q => handles[p].panelId # handles[q].panelId
  /\ \A i \in 1..Len(panels) :
       /\ panels[i].value \in 1..panelCounter
       /\ panels[i].key = handles[panels[i].value].panelId

C11_CreatedAfterDisposeAll ==
  /\ panelCounter = 3
  /\ handles[1].state = "disposed" /\ disposeCalls[1] = 1
  /\ handles[2].state = "disposed" /\ disposeCalls[2] = 0
  /\ handles[3].state = "live" /\ Tracked(3)
  /\ handles[3].panelId = "tyt-panel-3"

----------------------------------------------------------------------------
(* C12 *)

\* C12: in every reachable state getActivePanels returns exactly the panels
\* that were created successfully and are not disposed, each once, in the
\* order of their creation
C12_ActivePanelsAreTheLiveOnes ==
  getActivePanels =
    SelectSeq([p \in 1..Len(handles) |-> p],
              LAMBDA p : handles[p].state = "live")

C12_TwoLeftAfterCloseAndMessage ==
  /\ getActivePanels = <<2, 3>>
  /\ handles[1].state = "disposed"
  /\ messageParity = 1

----------------------------------------------------------------------------
(* C13 *)

\* C13: a message whose command is neither "openExternal" nor "switchGame",
\* or that has no command, changes nothing: no panel's content, not the
\* registry, not the counter; the step makes no external open and posts
\* nothing to any panel
C13_OtherMessagesIgnored ==
  [][messageParity' # messageParity =>
       \/ /\ externalOpened' = <<>>
          /\ \A q \in 1..Len(handles') : handles'[q].inbox = <<>>
          /\ UNCHANGED << panelCounter, panels, handles, removals,
                          disposeCalls, config >>
       \/ ~\E p \in 1..MaxPanels, url \in MsgUrls,
               command \in MsgCommands \ {"openExternal", "switchGame"} :
              ReceiveMessage(p, command, url)]_vars

\* the one panel of the build without validation has handled a message and
\* shows its initial document, and the step opened nothing: that message was
\* of another kind
C13_IgnoredMessageHandled ==
  /\ ~validating
  /\ panelCounter = 1
  /\ messageParity = 1
  /\ externalOpened = <<>>
  /\ \E nonce \in PanelNonces :
       handles[1].html =
         generate(Webview, config.gameUrl, config.games, Resources, nonce)

----------------------------------------------------------------------------
(* C14 *)

\* C14: handling a message of any kind, with any url, for panel p creates no
\* panel and leaves the counter, the tracked entries and every title and
\* liveness as they were; every panel other than p keeps its content
C14_MessageTouchesOnlyItsPanel ==
  [][messageParity' # messageParity =>
       \A p \in 1..MaxPanels :
         \/ /\ panelCounter' = panelCounter
            /\ panels' = panels
            /\ Len(handles') = Len(handles)
            /\ \A q \in 1..Len(handles) :
                 /\ handles'[q].title = handles[q].title
                 /\ handles'[q].state = handles[q].state
                 /\ handles'[q].panelId = handles[q].panelId
                 /\ q # p => handles'[q] = handles[q]
         \/ ~\E url \in MsgUrls, command \in MsgCommands :
                ReceiveMessage(p, command, url)]_vars

C14_TwoPanelsShowDifferentGames ==
  /\ getActivePanels = <<1, 2>>
  /\ \E i \in Frames(handles[1].html) : handles[1].html[i].val = UrlPlaypager
  /\ \E i \in Frames(handles[2].html) : handles[2].html[i].val = UrlOnlineGames

----------------------------------------------------------------------------
(* C15 *)

\* C15: loadConfig never throws, at construction or on reload; when a field
\* of the settings it read fails the schema, the cached configuration is the
\* hardcoded one: gameUrl https://onlinegames.io/, the one preset
\* OnlineGames.io, no fallback url, error reporting on
C15_InvalidSettingsYieldDefaults ==
  /\ ~lastLoad.threw
  /\ InvalidField(lastLoad.read) =>
       /\ config.gameUrl = UrlOnlineGames
       /\ config.games = << [name |-> NameOnlineGames, url |-> UrlOnlineGames] >>
       /\ config.fallbackUrl = Undefined
       /\ config.enableErrorReporting = TRUE

C15_BadFallbackDropsValidGameUrl ==
  /\ lastLoad.by = "reload"
  /\ lastLoad.read.gameUrl = JsString(UrlPlaypager)
  /\ lastLoad.read.fallbackUrl = JsString(UrlNoScheme)
  /\ lastLoad.read.enableErrorReporting = JsBoolean(FALSE)
  /\ config.gameUrl = UrlOnlineGames
  /\ config.enableErrorReporting = TRUE

----------------------------------------------------------------------------
(* C16 *)

\* C16: after the constructor and after any reloads, the four cached fields
\* are all those of the one reading loadConfig last made, which passed the
\* schema, or all the hardcoded defaults; never some of each, and never
\* values of an earlier reading beside new ones
C16_CacheFromOneReading ==
  \/ ~InvalidField(lastLoad.read) /\ config = ReadingOf(lastLoad.read)
  \/ InvalidField(lastLoad.read) /\ config = HardcodedDefaults

C16_OldReadingKeptUntilReload ==
  /\ lastLoad.by = "reload"
  /\ settings.gameUrl = JsString(UrlNoScheme)
  /\ lastLoad.read # settings
  /\ config.gameUrl = UrlPlaypager
  /\ config.games = << [name |-> NameTest, url |-> UrlSmbGames] >>
  /\ config.fallbackUrl = UrlCrazyGames
  /\ config.enableErrorReporting = FALSE

----------------------------------------------------------------------------
(* C17 *)

\* C17: when the host fails to create the surface, handleOpenGame shows
\* exactly one error notice, the generic one, and throws a CommandError that
\* carries the command name takeYourTime.openGame and, in its context, the
\* failure of the host; createGamePanel is called once (the counter moves by
\* one) and nothing is tracked
C17_FailureShownOnceAndRethrown ==
  [][HandleOpenGameFails =>
       LET call == openGameCalls'[Len(openGameCalls')]
           errors == SelectSeq(call.notices, LAMBDA n : n.kind = "error")
       IN /\ Len(openGameCalls') = Len(openGameCalls) + 1
          /\ Len(errors) = 1
          /\ errors[1].text =
               "Failed to open Take Your Time game. Please try again."
          /\ call.thrown.name = "CommandError"
          /\ call.thrown.commandId = "takeYourTime.openGame"
          /\ call.thrown.context.error = handles'[Len(handles')].failure
          /\ call.thrown.context.error \in HostFailures
          /\ panelCounter' = panelCounter + 1
          /\ panels' = panels]_vars

C17_FailedBetweenTwoPanels ==
  /\ panelCounter = 3
  /\ handles[2].state = "failed"
  /\ openGameCalls[2].thrown.name = "CommandError"
  /\ openGameCalls[1].thrown = NoError
  /\ getActivePanels = <<1, 3>>

----------------------------------------------------------------------------
(* C18 *)

----------------------------------------------------------------------------
(* C19 *)

----------------------------------------------------------------------------
(* C20 *)

\* C20: the titles of the panels tracked at the same time are pairwise
\* distinct in every reachable state, and no panel is given the title of a
\* panel created before it, closed or not
C20_TitlesDistinct ==
  /\ \A i, j \in 1..Len(panels) :
       i # j => handles[panels[i].value].title # handles[panels[j].value].title
  /\ \A p, q \in 1..Len(handles) :
       (p # q /\ handles[p].state # "failed" /\ handles[q].state # "failed") =>
         handles[p].title # handles[q].title

C20_TwoOpenedAfterClose ==
  /\ panelCounter = 3
  /\ handles[1].state = "disposed" /\ disposeCalls[1] = 1
  /\ getActivePanels = <<2, 3>>
  /\ handles[2].title = "Take Your Time (2)"
  /\ handles[3].title = "Take Your Time (3)"

----------------------------------------------------------------------------
(* C21 *)

\* C21: every document generate returns, with the frame or with the
\* placeholder, has exactly one Content-Security-Policy meta tag, and its
\* policy holds the directives default-src 'none' and
\* frame-src * https: http:
C21_PolicyDeniesByDefault ==
  gen.called =>
    LET metas == {i \in 1..Len(gen.html) : gen.html[i].src = "csp"} IN
    /\ Cardinality(metas) = 1
    /\ \A i \in metas :
         /\ gen.html[i].lit = CspMetaLit
         /\ \E k \in 1..Len(gen.html[i].val) :
              gen.html[i].val[k] = "default-src 'none'"
         /\ \E k \in 1..Len(gen.html[i].val) :
              gen.html[i].val[k] = "frame-src * https: http:"

C21_PlaceholderCarriesPolicy ==
  /\ gen.called
  /\ gen.gameUrl = UrlCrazyGames
  /\ Frames(gen.html) = {}
  /\ gen.html[1].src = "csp"
  /\ gen.html[1].val[1] = "default-src 'none'"

----------------------------------------------------------------------------
(* C22 *)

\* C22: once activate has returned, the command takeYourTime.openGame is
\* registered, bound to handleOpenGame and held in context.subscriptions; once
\* activate has failed, it threw an ExtensionError that wraps the cause, and
\* the command is neither registered nor held in context.subscriptions.
C22_FailedActivationLeavesNoCommand ==
  /\ activation.state = "active" =>
       /\ activation.registered
       /\ activation.boundTo = "handleOpenGame"
       /\ activation.subscriptions = << "takeYourTime.openGame" >>
       /\ activation.thrown = NoActivationError
  /\ activation.state = "failed" =>
       /\ activation.thrown.name = "ExtensionError"
       /\ activation.thrown.context.error \in ActivationFailures
       /\ ~activation.registered
       /\ activation.subscriptions = <<>>

\* activate failed in its last statement and the command can still be invoked
C22_FailedActivationKeepsCommand ==
  /\ activation.state = "failed"
  /\ activation.thrown.context.error = "showInformationMessage failed"
  /\ activation.subscriptions = << "takeYourTime.openGame" >>
  /\ panelCounter = 1 /\ getActivePanels = << 1 >>

----------------------------------------------------------------------------
(* C23 *)

\* C23: whenever a panel is created, whatever the panels before it were
\* switched to, its first document is the one generate returns for the
\* primary url and the presets of the cached configuration
C23_NewPanelShowsConfiguredUrl ==
  [][panelCounter' = panelCounter + 1 =>
       LET new == panelCounter' IN
       handles'[new].state = "live" =>
         /\ \E nonce \in PanelNonces :
              handles'[new].html =
                generate(Webview, config.gameUrl, config.games, Resources, nonce)
         /\ \A i \in Frames(handles'[new].html) :
              handles'[new].html[i].val = config.gameUrl]_vars

C23_ConfiguredUrlBesideSwitchedPanel ==
  /\ panelCounter = 2
  /\ messageParity = 1
  /\ handles[1].state = "live" /\ handles[2].state = "live"
  /\ \E i \in Frames(handles[1].html) : handles[1].html[i].val = UrlPlaypager
  /\ Frames(handles[2].html) # {}
  /\ \A i \in Frames(handles[2].html) : handles[2].html[i].val = config.gameUrl
  /\ handles[2].revealed

----------------------------------------------------------------------------
(* C24 *)

----------------------------------------------------------------------------
(* C25 *)

\* C25: in every document generate returns for a target url u, a click on
\* either open-in-browser button posts openExternal with u, and in the
\* placeholder view a click on Reload posts switchGame with u, so that the
\* document rendered for the posted url is, but for the nonce, the same one
C25_ControlsCarryTargetUrl ==
  gen.called =>
    LET buttons == {i \in 1..Len(gen.html) :
                      gen.html[i].lit \in {BlockedButtonLit, ToolbarButtonLit}}
        posted == reloadGameClick(gen.html)
    IN /\ buttons # {}
       /\ \A i \in buttons :
            openExternalClick(gen.html, i) =
              [command |-> "openExternal", url |-> gen.gameUrl]
       /\ Frames(gen.html) = {} =>
            /\ posted = [command |-> "switchGame", url |-> gen.gameUrl]
            /\ generate(Webview, posted.url, gen.gamePresets, gen.resources,
                        gen.nonce) = gen.html

\* the same statement for target urls free of the five reserved characters
C25_PlainUrlControlsCarryTargetUrl ==
  (gen.called /\ EscapedForm(gen.gameUrl) = gen.gameUrl) =>
    C25_ControlsCarryTargetUrl

\* the placeholder's Reload posts the escaped text of a url holding &
C25_ReloadPostsEscapedText ==
  /\ gen.called /\ gen.gameUrl = UrlMarioAmp
  /\ reloadGameClick(gen.html).command = "switchGame"
  /\ reloadGameClick(gen.html).url = EscapedForm(UrlMarioAmp)
  /\ reloadGameClick(gen.html).url # UrlMarioAmp

\* the toolbar's button posts nothing for a url holding '
C25_QuoteSilencesButton ==
  /\ gen.called /\ gen.gameUrl = UrlAmpQuote
  /\ \E i \in 1..Len(gen.html) :
       /\ gen.html[i].lit = ToolbarButtonLit
       /\ openExternalClick(gen.html, i) = NoMessage

----------------------------------------------------------------------------
(* C26 *)

----------------------------------------------------------------------------
(* C27 *)

\* C27: for all strings a and b, what escapeHtml returns is the string with
\* each reserved character replaced by its entity and every other character
\* kept, so no entity written by an earlier replacement is escaped again,
\* and escapeHtml(a + b) is escapeHtml(a) followed by escapeHtml(b)
C27_EscapeIsCharacterwise ==
  esc.called =>
    /\ esc.ofA = EscapedForm(esc.a)
    /\ esc.ofB = EscapedForm(esc.b)
    /\ esc.ofAB = EscapedForm(esc.a \o esc.b)
    /\ esc.ofAB = esc.ofA \o esc.ofB
    /\ decodeHtml(esc.ofAB) = esc.a \o esc.b

C27_EntityLikeInputEscapedOnce ==
  /\ esc.called
  /\ esc.a = <<"<">> \o EntAmp
  /\ esc.b = <<"&">> \o <<"l", "t", ";">>
  /\ esc.ofA = EntLt \o EntAmp \o <<"a", "m", "p", ";">>
  /\ esc.ofAB = esc.ofA \o esc.ofB

----------------------------------------------------------------------------
(* C28 *)

\* the games setting as loadConfig last read it is missing or an empty list
PresetsUnset(read) == read.games.type = "undefined" \/ read.games.val = <<>>

\* C28, as stated: after the constructor and after any reloads,
\* getGamePresets returns a list that is not empty, getGameUrl returns a
\* well-formed URL, and when the games setting that was read is missing or
\* empty, getGamePresets returns the four built-in presets
C28_UnsetPresetsBecomeFour ==
  /\ getGamePresets # <<>>
  /\ ZodUrl(getGameUrl)
  /\ PresetsUnset(lastLoad.read) => getGamePresets = BuiltInPresets

\* C28, amended: after the constructor and after any reloads,
\* getGamePresets returns a list that is not empty and getGameUrl returns a
\* well-formed URL; when the games setting that was read is missing or empty,
\* getGamePresets returns the four built-in presets if every other setting
\* read passes the schema, and the one preset of the hardcoded defaults if
\* one of them does not
C28_UnsetPresetsBecomeFourIfOthersValid ==
  /\ getGamePresets # <<>>
  /\ ZodUrl(getGameUrl)
  /\ \A k \in 1..Len(getGamePresets) : ZodUrl(getGamePresets[k].url)
  /\ PresetsUnset(lastLoad.read) =>
       getGamePresets = IF InvalidField(lastLoad.read)
                        THEN << [name |-> NameOnlineGames, url |-> UrlOnlineGames] >>
                        ELSE BuiltInPresets

C28_EmptyListBesideBadUrlGivesOne ==
  /\ lastLoad.by = "reload"
  /\ lastLoad.read.games = JsArray(<<>>)
  /\ lastLoad.read.gameUrl = JsString(UrlNoScheme)
  /\ Len(getGamePresets) = 1
  /\ getGameUrl = UrlOnlineGames

----------------------------------------------------------------------------
(* C29 *)

\* C29: an edit of the host's settings changes nothing in the cached
\* configuration; the cached configuration changes only in a step of reload;
\* and the first document of every panel created is the one for the primary
\* url and the presets that the constructor or the last reload read, whatever
\* the settings are by then
C29_SettingsReachPanelsOnlyByReload ==
  [][/\ settings' # settings => (config' = config /\ lastLoad' = lastLoad)
     /\ (config' # config \/ lastLoad' # lastLoad) => Reload
     /\ panelCounter' = panelCounter + 1 =>
          \E nonce \in PanelNonces :
            handles'[panelCounter'].html =
              generate(Webview, ReadingOf(lastLoad.read).gameUrl,
                       ReadingOf(lastLoad.read).games, Resources, nonce)]_vars

C29_EditedSettingsNotYetShown ==
  /\ panelCounter = 2
  /\ lastLoad.by = "reload"
  /\ lastLoad.read = NoUserSettings
  /\ settings.gameUrl = JsString(UrlPlaypager)
  /\ messageParity = 0
  /\ Frames(handles[1].html) # {}
  /\ \A i \in Frames(handles[1].html) : handles[1].html[i].val = UrlPlaypager
  /\ Frames(handles[2].html) # {}
  /\ \A i \in Frames(handles[2].html) : handles[2].html[i].val = UrlOnlineGames

----------------------------------------------------------------------------
(* C30 *)

\* C30: a createGamePanel call that throws, in the host's panel creation or
\* in the first rendering, leaves the registry and every earlier panel as
\* they were; a call that returns, whatever calls failed before it, adds
\* the entry of its own panel under its own id at the end of the registry
C30_FailedCreationTracksNothing ==
  [][panelCounter' = panelCounter + 1 =>
       LET new == panelCounter' IN
       /\ \A q \in 1..Len(handles) : handles'[q] = handles[q]
       /\ handles'[new].state # "live" =>
            /\ panels' = panels
            /\ handles'[new].failure \in HostFailures \cup ContentFailures
            /\ openGameCalls'[new].thrown.context.error = handles'[new].failure
       /\ handles'[new].state = "live" =>
            /\ panels' = Append(panels, [key |-> panelIdOf(new), value |-> new])
            /\ \A i \in 1..Len(panels) : panels[i].key # panelIdOf(new)]_vars

C30_TrackedAfterTwoFailures ==
  /\ panelCounter = 3
  /\ handles[1].state = "failed"
  /\ handles[2].state = "orphan"
  /\ handles[3].state = "live"
  /\ panels = << [key |-> panelIdOf(3), value |-> 3] >>

====
